---- MODULE Spec2Model ----
(***************************************************************************)
(* Model of the telegram-yt-bot acquisition-and-delivery pipeline.         *)
(*                                                                         *)
(* The repository holds two alternative bot programs:                      *)
(*   main.py : a long-polling bot; /video and /audio commands run          *)
(*             process_video_download / process_audio_download, which use  *)
(*             the one global directory DOWNLOAD_DIR as scratch area;      *)
(*   bot.py  : a Flask webhook bot; a button press runs button_click,      *)
(*             which downloads into a fresh tempfile.TemporaryDirectory.   *)
(* One behaviour of the model is one deployment: `program` says which of   *)
(* the two programs runs.  Every await of a handler is one step; a call    *)
(* into the messaging layer may raise, the extraction tool may fail.       *)
(***************************************************************************)
EXTENDS Integers, Sequences, FiniteSets, TLC

\* ------------------------------------------------------------------ bounds
MaxJobs == 2          \* submissions (commands, button presses) in one run
MaxFiles == 2         \* files one run of the tool may write for a user's URL

\* ------------------------------------------------------- program constants
MAX_FILE_SIZE_MB == 50
MAX_FILE_SIZE_BYTES == MAX_FILE_SIZE_MB * 1024 * 1024
TOP_HEIGHT == 720
LOW_HEIGHT == 480
TITLE_LIMIT == 100

JobIds == 1..MaxJobs

\* DOWNLOAD_DIR of main.py is directory 0; directory d > 0 is a temporary
\* directory of bot.py.
DOWNLOAD_DIR == 0
Dirs == 0..MaxJobs

\* ------------------------------------------------------------- data values
\* An optional value is a pair <<tag, n>>.
Absent == <<"absent", 0>>
NoneVal == <<"None", 0>>
StrV(n) == <<"str", n>>            \* a string of n characters read from the tool
IntV(n) == <<"int", n>>
Default(s) == <<s, 0>>            \* a default literal of the code

NoInfo == [some |-> FALSE, title |-> Absent, duration |-> Absent]
Infos ==
  { [some |-> TRUE, title |-> StrV(TITLE_LIMIT + 1), duration |-> IntV(600)],
    [some |-> TRUE, title |-> StrV(7), duration |-> Absent],
    [some |-> TRUE, title |-> Absent, duration |-> NoneVal],
    [some |-> TRUE, title |-> NoneVal, duration |-> IntV(600)] }

NoFile == [by |-> 0, att |-> 0, idx |-> 0, ext |-> "", size |-> 0, mtime |-> 0]
NoSent == [title |-> Absent, duration |-> Absent, file |-> NoFile]

Sizes == {MAX_FILE_SIZE_BYTES, MAX_FILE_SIZE_BYTES + 1}

VIDEO_EXTS == {"mp4", "mkv", "webm", "mov"}
AUDIO_EXTS == {"mp3", "m4a", "opus", "webm", "wav", "ogg"}
ToolVideoExts == {"mp4", "flv"}
ToolAudioExts == {"m4a", "mp4"}

\* What one run of the tool leaves in the directory: up to n files.
Outputs(exts, n) == UNION { [1..m -> exts \X Sizes] : m \in 0..n }

\* Exceptions a call into the messaging layer may raise.  TimedOut is a
\* subclass of NetworkError; "Other" is any other exception.
\* How one run of the tool fails: with a DownloadError saying the item does
\* not exist, is private or restricted, or could not be fetched this time; or
\* with any other exception (post-processing included).
DownloadErrors == {"NotFound", "Restricted", "Transient"}
ToolFailures == DownloadErrors \cup {"Other"}

Raises == {"none", "TimedOut", "NetworkError", "Other"}
Raise2 == {"none", "Other"}

\* user_data: the video ids bot.py remembers a URL for (bot.py:187).
\* app: of bot.py, the attribute app.bot_initialized of the Flask app ("unset"
\* while hasattr is false) and whether ptb_app has been initialised.
VARIABLES app, program, jobs, files, user_data

vars == <<app, program, jobs, files, user_data>>

NoJob ==
  [ pc |-> "none", fmt |-> "", arg |-> "", info |-> NoInfo, error |-> "",
    file |-> NoFile, size |-> 0, lad |-> <<>>, paths |-> <<>>, uploads |-> 0, media |-> 0,
    sent |-> NoSent, fail |-> 0, status |-> "none", outcome |-> "",
    vid |-> "", first |-> "", meta |-> "", entered |-> FALSE, ws |-> FALSE, dir |-> 0, exc |-> "",
    res |-> <<>>, scan |-> "", upexc |-> "", http |-> <<"", 0>> ]

\* ----------------------------------------------------------- pure helpers
Min(a, b) == IF a < b THEN a ELSE b

\* main.py:58-60
get_file_size(f, present) == IF f \in present THEN f.size ELSE 0

\* A cleanup that would remove nothing.
cleanup_download_dir_Noop(fs) == fs

\* A cleanup that would unlink one file each time it is called.
cleanup_download_dir_OneFile(fs) ==
  [fs EXCEPT ![DOWNLOAD_DIR] =
     IF @ = {} THEN @ ELSE @ \ {CHOOSE f \in @ : \A g \in @ : g.mtime <= f.mtime}]

\* main.py:62-70: every regular file of the directory is unlinked.
cleanup_download_dir(fs) == [fs EXCEPT ![DOWNLOAD_DIR] = {}]

\* main.py:72-81: the newest file among those with an expected extension.
find_downloaded_file(present, extensions) ==
  LET cand == {f \in present : f.ext \in extensions}
  IN  IF cand = {} THEN NoFile
      ELSE CHOOSE f \in cand : \A g \in cand : g.mtime <= f.mtime

\* A check that would reject the boundary itself (>= in place of >).
TooLarge_AtLimit(size) == size >= MAX_FILE_SIZE_BYTES

\* A size check that would accept every artifact.
TooLarge_Never(size) == FALSE

\* The size check of main.py:279, 296, 387.
TooLarge(size) == size > MAX_FILE_SIZE_BYTES

\* The title without the [:100] slice.
TitleOf_NoLimit(info, dflt) ==
  IF info.title = Absent THEN Default(dflt) ELSE info.title

\* info.get('title', dflt)[:100]  (main.py:310, 396)
TitleOf(info, dflt) ==
  IF info.title = Absent THEN Default(dflt)
  ELSE StrV(Min(info.title[2], TITLE_LIMIT))

\* info.get('duration', 0)  (main.py:311, 397)
DurationOf(info) == IF info.duration = Absent THEN IntV(0) ELSE info.duration

\* The files a tool run of job j, attempt att, writes.
Written(j, att, out) ==
  { [by |-> j, att |-> att, idx |-> i, ext |-> out[i][1], size |-> out[i][2],
     mtime |-> (j * 4 + att) * (MaxFiles + 1) + i] : i \in 1..Len(out) }

\* --------------------------------------------------------------- dispatch
Submitted(j) == jobs[j].pc # "none"
Running(j) == jobs[j].pc \notin {"none", "queued", "done"}

\* main.py:477-495: the Application is built without concurrent_updates, so
\* run_polling hands the updates to the handlers one by one, in arrival order.
MainDispatch(j) ==
  /\ program = "main"
  /\ jobs[j].pc = "queued"
  /\ \A k \in JobIds : ~Running(k)
  /\ \A k \in JobIds : jobs[k].pc = "queued" => j <= k

Set(j, r) == jobs' = [jobs EXCEPT ![j] = r]

\* The handler returns (or has raised and the error handler has run).
Return(job) ==
  [job EXCEPT !.pc = "ret", !.info = NoInfo, !.error = "", !.file = NoFile,
              !.size = 0, !.sent = NoSent, !.scan = ""]

Init ==
  /\ app = [bot_initialized |-> "unset", initialized |-> FALSE]
  /\ program \in {"main", "bot"}
  /\ jobs = [j \in JobIds |-> NoJob]
  /\ files = [d \in Dirs |-> {}]
  /\ user_data = {}

\* A user sends /video or /audio, with no argument, a text that is no
\* YouTube URL, or a YouTube URL.
SendCommand(j) ==
  /\ program = "main"
  /\ jobs[j].pc = "none"
  /\ \A k \in JobIds : k < j => Submitted(k)
  /\ \E f \in {"video", "audio"}, a \in {"none", "bad", "url"} :
       Set(j, [jobs[j] EXCEPT !.pc = "queued", !.fmt = f, !.arg = a])
  /\ UNCHANGED <<app, program, files, user_data>>

\* main.py:449-458
error_handler(j) ==
  /\ jobs[j].pc = "m_error_handler"
  /\ \E r \in Raise2 :
       Set(j, Return([jobs[j] EXCEPT
                 !.fail = IF r = "none" THEN @ + 1 ELSE @,
                 !.outcome = "Fault"]))
  /\ UNCHANGED <<app, program, files, user_data>>

\* main.py:203-218 and 237-239
video_command(j) ==
  /\ MainDispatch(j)
  /\ jobs[j].fmt = "video"
  /\ \E r \in Raise2 :
       IF r # "none" THEN
         Set(j, [jobs[j] EXCEPT !.pc = "m_error_handler", !.exc = "Other"])
       ELSE IF jobs[j].arg # "url" THEN
         Set(j, Return([jobs[j] EXCEPT !.outcome = "Rejected"]))
       ELSE
         Set(j, [jobs[j] EXCEPT !.pc = "v_start", !.entered = TRUE,
                   !.ws = TRUE, !.dir = DOWNLOAD_DIR, !.status = "progress"])
  /\ UNCHANGED <<app, program, files, user_data>>

\* main.py:242-243
PVD_SendAction(j) ==
  /\ jobs[j].pc = "v_start"
  /\ \E r \in Raise2 :
       IF r # "none" THEN
         /\ Set(j, [jobs[j] EXCEPT !.pc = "v_except", !.exc = "Other"])
         /\ UNCHANGED files
       ELSE
         /\ Set(j, [jobs[j] EXCEPT !.pc = "v_edit"])
         /\ files' = cleanup_download_dir(files)
  /\ UNCHANGED <<app, program, user_data>>

\* main.py:245
PVD_EditDownloading(j) ==
  /\ jobs[j].pc = "v_edit"
  /\ \E r \in Raise2 :
       Set(j, [jobs[j] EXCEPT !.pc = IF r = "none" THEN "v_dl720" ELSE "v_except",
                 !.exc = IF r = "none" THEN @ ELSE r])
  /\ UNCHANGED <<app, program, files, user_data>>

\* main.py:83-117: one run of the tool.  It returns (info, None) after
\* writing its output, or (None, message) and whatever partial file it left.
download_video_sync(j, att, next) ==
  \E ok \in BOOLEAN, i \in Infos, out \in Outputs(ToolVideoExts, MaxFiles),
     e \in {"Download error", "Error"}, k \in ToolFailures :
    /\ ok => (k = "Other")
    /\ ~ok => (e = "Download error" <=> k \in DownloadErrors)
    /\ ok => Len(out) >= 1
    /\ ~ok => \A n \in 1..Len(out) : out[n] = <<"flv", MAX_FILE_SIZE_BYTES>>
    /\ ~ok => (i = CHOOSE x \in Infos : TRUE)
    /\ ok => (e = "Error")
    /\ Set(j, [jobs[j] EXCEPT !.pc = next,
                 !.info = IF ok THEN i ELSE NoInfo,
                 !.error = IF ok THEN "" ELSE e,
                 !.res = Append(@, IF ok THEN "ok" ELSE k),
                 !.lad = Append(@, IF att = 1 THEN TOP_HEIGHT ELSE LOW_HEIGHT)])
    /\ files' = [files EXCEPT ![DOWNLOAD_DIR] =
                   @ \cup Written(j, att,
                            IF ok THEN out
                            ELSE [n \in 1..Len(out) |-> <<"part", out[n][2]>>])]

\* main.py:248-252
PVD_Download720(j) ==
  /\ jobs[j].pc = "v_dl720"
  /\ download_video_sync(j, 1, "v_check720")
  /\ UNCHANGED <<app, program, user_data>>

\* A first check that would go down the ladder whatever the first run gave.
PVD_Check720_AlwaysFallback(j) ==
  /\ jobs[j].pc = "v_check720"
  /\ Set(j, [jobs[j] EXCEPT !.pc = "v_dl480", !.first = "large"])
  /\ files' = cleanup_download_dir(files)
  /\ UNCHANGED <<app, program, user_data>>

\* main.py:254-282
PVD_Check720(j) ==
  /\ jobs[j].pc = "v_check720"
  /\ LET job == jobs[j]
         video_file == find_downloaded_file(files[DOWNLOAD_DIR], VIDEO_EXTS)
         file_size == get_file_size(video_file, files[DOWNLOAD_DIR])
     IN \E r \in Raise2 :
       IF job.error # "" \/ ~job.info.some \/ video_file = NoFile THEN
         \* a failure text, cleanup, return (the finally clause follows)
         IF r = "none" THEN
           /\ Set(j, [job EXCEPT !.pc = "v_finally", !.fail = @ + 1,
                        !.status = "failure",
                        !.first = IF video_file = NoFile THEN "nofile" ELSE "error",
                        !.outcome = IF job.error # "" \/ ~job.info.some
                                    THEN "ToolError" ELSE "NotFound"])
           /\ files' = cleanup_download_dir(files)
         ELSE
           /\ Set(j, [job EXCEPT !.pc = "v_except", !.exc = "Other",
                        !.first = IF video_file = NoFile THEN "nofile" ELSE "error"])
           /\ UNCHANGED files
       ELSE IF TooLarge(file_size) THEN
         /\ Set(j, [job EXCEPT !.pc = IF r = "none" THEN "v_dl480" ELSE "v_except",
                      !.exc = IF r = "none" THEN @ ELSE r, !.first = "large",
                      !.file = video_file, !.size = file_size])
         /\ files' = cleanup_download_dir(files)
       ELSE
         /\ r = "none"
         /\ Set(j, [job EXCEPT !.pc = "v_uploading", !.first = "ok",
                      !.file = video_file, !.size = file_size])
         /\ UNCHANGED files
  /\ UNCHANGED <<app, program, user_data>>

\* main.py:284-287
PVD_Download480(j) ==
  /\ jobs[j].pc = "v_dl480"
  /\ download_video_sync(j, 2, "v_check480")
  /\ UNCHANGED <<app, program, user_data>>

\* A second check that would fetch again instead of giving up.
PVD_Check480_Retry(j) ==
  /\ jobs[j].pc = "v_check480"
  /\ Set(j, [jobs[j] EXCEPT !.pc = "v_dl480"])
  /\ files' = cleanup_download_dir(files)
  /\ UNCHANGED <<app, program, user_data>>

\* main.py:289-304
PVD_Check480(j) ==
  /\ jobs[j].pc = "v_check480"
  /\ LET job == jobs[j]
         video_file == find_downloaded_file(files[DOWNLOAD_DIR], VIDEO_EXTS)
         file_size == get_file_size(video_file, files[DOWNLOAD_DIR])
     IN \E r \in Raise2 :
       IF job.error # "" \/ video_file = NoFile \/ TooLarge(file_size) THEN
         IF r = "none" THEN
           /\ Set(j, [job EXCEPT !.pc = "v_finally", !.fail = @ + 1,
                        !.status = "failure",
                        !.file = IF job.error # "" THEN @ ELSE video_file,
                        !.size = IF job.error # "" THEN @ ELSE file_size,
                        !.outcome = IF job.error # "" THEN "ToolError"
                                    ELSE "TooLarge"])
           /\ files' = cleanup_download_dir(files)
         ELSE
           /\ Set(j, [job EXCEPT !.pc = "v_except", !.exc = "Other"])
           /\ UNCHANGED files
       ELSE
         /\ r = "none"
         /\ Set(j, [job EXCEPT !.pc = "v_uploading",
                      !.file = video_file, !.size = file_size])
         /\ UNCHANGED files
  /\ UNCHANGED <<app, program, user_data>>

\* main.py:307-311
PVD_EditUploading(j) ==
  /\ jobs[j].pc = "v_uploading"
  /\ \E r \in Raise2 :
       \* None[:100] raises TypeError
       LET x == IF r # "none" THEN r
                ELSE IF jobs[j].info.title = NoneVal THEN "TypeError" ELSE "none"
       IN Set(j, [jobs[j] EXCEPT
                    !.pc = IF x = "none" THEN "v_upload" ELSE "v_except",
                    !.exc = IF x = "none" THEN @ ELSE x])
  /\ UNCHANGED <<app, program, files, user_data>>

\* main.py:313-323
PVD_Upload(j) ==
  /\ jobs[j].pc = "v_upload"
  /\ LET job == jobs[j] IN
     IF job.file \notin files[DOWNLOAD_DIR] THEN
       \* open() raises: no upload call is made
       Set(j, [job EXCEPT !.pc = "v_except", !.exc = "Other"])
     ELSE \E r \in Raises :
       Set(j, [job EXCEPT
                 !.pc = CASE r = "none" -> "v_delete"
                          [] r = "TimedOut" -> "v_timedout"
                          [] r = "NetworkError" -> "v_neterror"
                          [] OTHER -> "v_except",
                 !.exc = IF r = "none" THEN @ ELSE r,
                 !.upexc = IF r = "none" THEN @ ELSE r,
                 !.uploads = @ + 1,
                 !.media = IF r = "none" THEN @ + 1 ELSE @,
                 !.outcome = IF r = "none" THEN "Delivered" ELSE @,
                 !.sent = IF r = "none"
                          THEN [title |-> TitleOf(job.info, "video"),
                                duration |-> DurationOf(job.info),
                                file |-> job.file]
                          ELSE @])
  /\ UNCHANGED <<app, program, files, user_data>>

\* main.py:324
PVD_DeleteStatus(j) ==
  /\ jobs[j].pc = "v_delete"
  /\ \E r \in Raises :
       Set(j, [jobs[j] EXCEPT
                 !.pc = CASE r = "none" -> "v_finally"
                          [] r = "TimedOut" -> "v_timedout"
                          [] r = "NetworkError" -> "v_neterror"
                          [] OTHER -> "v_except",
                 !.exc = IF r = "none" THEN @ ELSE r,
                 !.status = IF r = "none" THEN "deleted" ELSE @])
  /\ UNCHANGED <<app, program, files, user_data>>

\* main.py:327-332
PVD_TimedOut(j) ==
  /\ jobs[j].pc = "v_timedout"
  /\ \E r \in Raise2 :
       Set(j, [jobs[j] EXCEPT
                 !.pc = IF r = "none" THEN "v_finally" ELSE "v_except",
                 !.exc = IF r = "none" THEN @ ELSE r,
                 !.fail = IF r = "none" THEN @ + 1 ELSE @,
                 !.status = IF r = "none" THEN "failure" ELSE @,
                 !.outcome = IF r = "none" THEN "UploadTimeout" ELSE @])
  /\ UNCHANGED <<app, program, files, user_data>>

\* main.py:333-334
PVD_NetworkError(j) ==
  /\ jobs[j].pc = "v_neterror"
  /\ \E r \in Raise2 :
       Set(j, [jobs[j] EXCEPT
                 !.pc = IF r = "none" THEN "v_finally" ELSE "v_except",
                 !.exc = IF r = "none" THEN @ ELSE r,
                 !.fail = IF r = "none" THEN @ + 1 ELSE @,
                 !.status = IF r = "none" THEN "failure" ELSE @,
                 !.outcome = IF r = "none" THEN "UploadNetworkError" ELSE @])
  /\ UNCHANGED <<app, program, files, user_data>>

\* main.py:336-342
PVD_Except(j) ==
  /\ jobs[j].pc = "v_except"
  /\ \E r \in Raise2 :
       Set(j, [jobs[j] EXCEPT
                 !.pc = "v_finally",
                 !.fail = IF r = "none" THEN @ + 1 ELSE @,
                 !.status = IF r = "none" THEN "failure" ELSE @,
                 !.outcome = IF r = "none" THEN "Fault" ELSE @])
  /\ UNCHANGED <<app, program, files, user_data>>

\* A finally clause that would not clean up.
PVD_Finally_NoCleanup(j) ==
  /\ jobs[j].pc = "v_finally"
  /\ Set(j, Return(jobs[j]))
  /\ UNCHANGED <<app, program, files, user_data>>

\* main.py:344-345, and the return of video_command to the dispatcher
PVD_Finally(j) ==
  /\ jobs[j].pc = "v_finally"
  /\ Set(j, Return(jobs[j]))
  /\ files' = cleanup_download_dir(files)
  /\ UNCHANGED <<app, program, user_data>>

\* ------------------------------------------------- process_audio_download
\* main.py:220-235 and 347-349
audio_command(j) ==
  /\ MainDispatch(j)
  /\ jobs[j].fmt = "audio"
  /\ \E r \in Raise2 :
       IF r # "none" THEN
         Set(j, [jobs[j] EXCEPT !.pc = "m_error_handler", !.exc = "Other"])
       ELSE IF jobs[j].arg # "url" THEN
         Set(j, Return([jobs[j] EXCEPT !.outcome = "Rejected"]))
       ELSE
         Set(j, [jobs[j] EXCEPT !.pc = "a_start", !.entered = TRUE,
                   !.ws = TRUE, !.dir = DOWNLOAD_DIR, !.status = "progress"])
  /\ UNCHANGED <<app, program, files, user_data>>

\* main.py:352-353
PAD_SendAction(j) ==
  /\ jobs[j].pc = "a_start"
  /\ \E r \in Raise2 :
       IF r # "none" THEN
         /\ Set(j, [jobs[j] EXCEPT !.pc = "a_except", !.exc = "Other"])
         /\ UNCHANGED files
       ELSE
         /\ Set(j, [jobs[j] EXCEPT !.pc = "a_edit"])
         /\ files' = cleanup_download_dir(files)
  /\ UNCHANGED <<app, program, user_data>>

\* main.py:355
PAD_EditDownloading(j) ==
  /\ jobs[j].pc = "a_edit"
  /\ \E r \in Raise2 :
       Set(j, [jobs[j] EXCEPT !.pc = IF r = "none" THEN "a_dl" ELSE "a_except",
                 !.exc = IF r = "none" THEN @ ELSE r])
  /\ UNCHANGED <<app, program, files, user_data>>

\* An audio fetch that would give up after the FFmpeg path.
download_audio_sync_NoFallback(j, next) ==
  \E ok1 \in BOOLEAN, i \in Infos, out1 \in Outputs({"mp3"}, 1),
     k1 \in ToolFailures :
    /\ ok1 => Len(out1) >= 1 /\ k1 = "Other"
    /\ ~ok1 => (i = CHOOSE x \in Infos : TRUE)
    /\ Set(j, [jobs[j] EXCEPT !.pc = next,
                 !.info = IF ok1 THEN i ELSE NoInfo,
                 !.error = IF ok1 THEN "" ELSE "Error",
                 !.res = <<IF ok1 THEN "ok" ELSE k1>>,
                 !.paths = <<"ffmpeg">>])
    /\ files' = [files EXCEPT ![DOWNLOAD_DIR] = @ \cup Written(j, 1, out1)]

\* main.py:119-174: the FFmpeg (mp3) path first; if it raises, the path
\* without post-processing.  A failed FFmpeg path may leave the raw download.
download_audio_sync(j, next) ==
  \E ok1 \in BOOLEAN, ok2 \in BOOLEAN, i \in Infos,
     out1 \in Outputs({"mp3"}, 1), out2 \in Outputs(ToolAudioExts, MaxFiles),
     e \in {"Download error", "Error"}, k1 \in ToolFailures, k2 \in ToolFailures :
    LET left == [k \in 1..Len(out1) |-> <<"webm", out1[k][2]>>]
        ok == ok1 \/ ok2
    IN
    /\ ok1 => (k1 = "Other")
    /\ (ok1 \/ ok2) => (k2 = "Other")
    /\ ~ok => (e = "Download error" <=> k2 \in DownloadErrors)
    /\ ok1 => Len(out1) >= 1 /\ out2 = <<>> /\ ~ok2
    /\ (~ok1 /\ ok2) => Len(out1) + Len(out2) >= 1
    /\ ~ok => out2 = <<>> /\ (i = CHOOSE x \in Infos : TRUE)
    /\ ok => (e = "Error")
    /\ Set(j, [jobs[j] EXCEPT !.pc = next,
                 !.info = IF ok THEN i ELSE NoInfo,
                 !.error = IF ok THEN "" ELSE e,
                 !.res = IF ok1 THEN <<"ok">>
                         ELSE <<k1, IF ok2 THEN "ok" ELSE k2>>,
                 !.paths = IF ok1 THEN <<"ffmpeg">> ELSE <<"ffmpeg", "plain">>])
    /\ files' = [files EXCEPT ![DOWNLOAD_DIR] =
                   @ \cup Written(j, 1, IF ok1 THEN out1 ELSE left)
                     \cup Written(j, 2, out2)]

\* main.py:358-362
PAD_Download(j) ==
  /\ jobs[j].pc = "a_dl"
  /\ download_audio_sync(j, "a_check")
  /\ UNCHANGED <<app, program, user_data>>

\* main.py:364-390
PAD_Check(j) ==
  /\ jobs[j].pc = "a_check"
  /\ LET job == jobs[j]
         audio_file == find_downloaded_file(files[DOWNLOAD_DIR], AUDIO_EXTS)
         file_size == get_file_size(audio_file, files[DOWNLOAD_DIR])
         failed == job.error # "" \/ ~job.info.some \/ audio_file = NoFile
     IN \E r \in Raise2 :
       IF failed \/ TooLarge(file_size) THEN
         IF r = "none" THEN
           /\ Set(j, [job EXCEPT !.pc = "a_finally", !.fail = @ + 1,
                        !.status = "failure",
                        !.file = IF failed THEN @ ELSE audio_file,
                        !.size = IF failed THEN @ ELSE file_size,
                        !.outcome = IF job.error # "" \/ ~job.info.some
                                    THEN "ToolError"
                                    ELSE IF audio_file = NoFile THEN "NotFound"
                                    ELSE "TooLarge"])
           /\ files' = cleanup_download_dir(files)
         ELSE
           /\ Set(j, [job EXCEPT !.pc = "a_except", !.exc = "Other"])
           /\ UNCHANGED files
       ELSE
         /\ r = "none"
         /\ Set(j, [job EXCEPT !.pc = "a_uploading",
                      !.file = audio_file, !.size = file_size])
         /\ UNCHANGED files
  /\ UNCHANGED <<app, program, user_data>>

\* main.py:393-397
PAD_EditUploading(j) ==
  /\ jobs[j].pc = "a_uploading"
  /\ \E r \in Raise2 :
       \* None[:100] raises TypeError
       LET x == IF r # "none" THEN r
                ELSE IF jobs[j].info.title = NoneVal THEN "TypeError" ELSE "none"
       IN Set(j, [jobs[j] EXCEPT
                    !.pc = IF x = "none" THEN "a_upload" ELSE "a_except",
                    !.exc = IF x = "none" THEN @ ELSE x])
  /\ UNCHANGED <<app, program, files, user_data>>

\* main.py:399-409
PAD_Upload(j) ==
  /\ jobs[j].pc = "a_upload"
  /\ LET job == jobs[j] IN
     IF job.file \notin files[DOWNLOAD_DIR] THEN
       Set(j, [job EXCEPT !.pc = "a_except", !.exc = "Other"])
     ELSE \E r \in Raises :
       Set(j, [job EXCEPT
                 !.pc = CASE r = "none" -> "a_delete"
                          [] r = "TimedOut" -> "a_timedout"
                          [] r = "NetworkError" -> "a_neterror"
                          [] OTHER -> "a_except",
                 !.exc = IF r = "none" THEN @ ELSE r,
                 !.upexc = IF r = "none" THEN @ ELSE r,
                 !.uploads = @ + 1,
                 !.media = IF r = "none" THEN @ + 1 ELSE @,
                 !.outcome = IF r = "none" THEN "Delivered" ELSE @,
                 !.sent = IF r = "none"
                          THEN [title |-> TitleOf(job.info, "audio"),
                                duration |-> DurationOf(job.info),
                                file |-> job.file]
                          ELSE @])
  /\ UNCHANGED <<app, program, files, user_data>>

\* main.py:410
PAD_DeleteStatus(j) ==
  /\ jobs[j].pc = "a_delete"
  /\ \E r \in Raises :
       Set(j, [jobs[j] EXCEPT
                 !.pc = CASE r = "none" -> "a_finally"
                          [] r = "TimedOut" -> "a_timedout"
                          [] r = "NetworkError" -> "a_neterror"
                          [] OTHER -> "a_except",
                 !.exc = IF r = "none" THEN @ ELSE r,
                 !.status = IF r = "none" THEN "deleted" ELSE @])
  /\ UNCHANGED <<app, program, files, user_data>>

\* main.py:413-414
PAD_TimedOut(j) ==
  /\ jobs[j].pc = "a_timedout"
  /\ \E r \in Raise2 :
       Set(j, [jobs[j] EXCEPT
                 !.pc = IF r = "none" THEN "a_finally" ELSE "a_except",
                 !.exc = IF r = "none" THEN @ ELSE r,
                 !.fail = IF r = "none" THEN @ + 1 ELSE @,
                 !.status = IF r = "none" THEN "failure" ELSE @,
                 !.outcome = IF r = "none" THEN "UploadTimeout" ELSE @])
  /\ UNCHANGED <<app, program, files, user_data>>

\* main.py:415-416
PAD_NetworkError(j) ==
  /\ jobs[j].pc = "a_neterror"
  /\ \E r \in Raise2 :
       Set(j, [jobs[j] EXCEPT
                 !.pc = IF r = "none" THEN "a_finally" ELSE "a_except",
                 !.exc = IF r = "none" THEN @ ELSE r,
                 !.fail = IF r = "none" THEN @ + 1 ELSE @,
                 !.status = IF r = "none" THEN "failure" ELSE @,
                 !.outcome = IF r = "none" THEN "UploadNetworkError" ELSE @])
  /\ UNCHANGED <<app, program, files, user_data>>

\* main.py:418-424
PAD_Except(j) ==
  /\ jobs[j].pc = "a_except"
  /\ \E r \in Raise2 :
       Set(j, [jobs[j] EXCEPT
                 !.pc = "a_finally",
                 !.fail = IF r = "none" THEN @ + 1 ELSE @,
                 !.status = IF r = "none" THEN "failure" ELSE @,
                 !.outcome = IF r = "none" THEN "Fault" ELSE @])
  /\ UNCHANGED <<app, program, files, user_data>>

\* main.py:426-427, and the return of audio_command to the dispatcher
PAD_Finally(j) ==
  /\ jobs[j].pc = "a_finally"
  /\ Set(j, Return(jobs[j]))
  /\ files' = cleanup_download_dir(files)
  /\ UNCHANGED <<app, program, user_data>>

\* ------------------------------------------------------------------ bot.py
VideoIds == {"vid"}

\* bot.py:308-322: before every request; initialize() is run when the app has
\* no attribute bot_initialized, and the attribute records how it went.
init_bot_result(a, ok) ==
  [bot_initialized |-> IF ok THEN "True" ELSE "False",
   initialized |-> a.initialized \/ ok]

\* bot.py:172-204, with the request that carries it (308-364): a message with
\* a YouTube link stores the URL under its video id and prompts for the
\* format.  process_update refuses the update while ptb_app is not initialised.
bot_handle_message ==
  /\ program = "bot"
  /\ \E ok \in BOOLEAN, v \in VideoIds :
       /\ app' = IF app.bot_initialized = "unset" THEN init_bot_result(app, ok)
                 ELSE app
       /\ app.bot_initialized # "unset" => ok
       /\ user_data' = IF app'.initialized THEN user_data \cup {v} ELSE user_data
  /\ UNCHANGED <<program, jobs, files>>

\* main.py:429-447: a message with a YouTube link is answered with the two
\* commands to choose from; nothing is stored and nothing is started.
handle_message ==
  /\ program = "main"
  /\ \A k \in JobIds : ~Running(k)
  /\ UNCHANGED vars

\* A request is posted to the webhook route.  Its body is a callback query (a
\* button of some prompt was pressed, or the callback data is not of the form
\* "<type>:<id>"), or JSON that is empty ("nodata"), or a body on which
\* get_json or Update.de_json raises ("invalid").
Bodies == {"a", "v", "malformed", "nodata", "invalid"}
PressButton(j) ==
  /\ program = "bot"
  /\ jobs[j].pc = "none"
  /\ \A k \in JobIds : k < j => Submitted(k)
  /\ \E d \in Bodies, v \in VideoIds :
       Set(j, [jobs[j] EXCEPT !.pc = "w_recv", !.arg = d, !.vid = v])
  /\ UNCHANGED <<app, program, files, user_data>>

\* bot.py:308-311: hasattr(app, 'bot_initialized') is read.
init_bot(j) ==
  /\ program = "bot"
  /\ jobs[j].pc = "w_recv"
  /\ Set(j, [jobs[j] EXCEPT
               !.pc = IF app.bot_initialized = "unset" THEN "w_init" ELSE "w_route"])
  /\ UNCHANGED <<app, program, files, user_data>>

\* bot.py:313-322: initialize() returns or raises, and the attribute is set.
init_bot_initialize(j) ==
  /\ jobs[j].pc = "w_init"
  /\ \E ok \in BOOLEAN : app' = init_bot_result(app, ok)
  /\ Set(j, [jobs[j] EXCEPT !.pc = "w_route"])
  /\ UNCHANGED <<program, files, user_data>>

\* The response of the route: its body and status code.
Respond(body, code) == [NoJob EXCEPT !.pc = "done", !.http = <<body, code>>]

\* A route whose except clause would let the exception go to Flask.
webhook_except_Escapes(j) ==
  /\ jobs[j].pc = "w_except"
  /\ Set(j, Respond("Internal Server Error", 500))
  /\ UNCHANGED <<app, program, files, user_data>>

\* bot.py:361-364
webhook_except(j) ==
  /\ jobs[j].pc = "w_except"
  /\ Set(j, Respond("error logged", 200))
  /\ UNCHANGED <<app, program, files, user_data>>

\* bot.py:328-356: the route reads the body, builds the Update and runs
\* process_update in the request's own thread.  process_update raises
\* RuntimeError when ptb_app has not been initialised.
webhook(j) ==
  /\ program = "bot"
  /\ jobs[j].pc = "w_route"
  /\ Set(j, IF jobs[j].arg = "nodata" THEN Respond("no data", 400)
            ELSE IF jobs[j].arg = "invalid" \/ ~app.initialized
              THEN [jobs[j] EXCEPT !.pc = "w_except", !.exc = "Other"]
            ELSE [jobs[j] EXCEPT !.pc = "b_answer"])
  /\ UNCHANGED <<app, program, files, user_data>>

\* bot.py:357-359
webhook_return(j) ==
  /\ program = "bot"
  /\ jobs[j].pc = "ret"
  /\ Set(j, Respond("ok", 200))
  /\ UNCHANGED <<app, program, files, user_data>>

\* bot.py:284-295
bot_error_handler(j) ==
  /\ jobs[j].pc = "b_error_handler"
  /\ \E r \in Raise2 :
       Set(j, Return([jobs[j] EXCEPT
                 !.fail = IF r = "none" THEN @ + 1 ELSE @,
                 !.outcome = "Fault"]))
  /\ UNCHANGED <<app, program, files, user_data>>

\* An exception leaves the try block of bot.py:227-274: its locals are dead.
Caught(job) ==
  [job EXCEPT !.pc = "b_except", !.ws = FALSE, !.info = NoInfo, !.file = NoFile,
              !.size = 0, !.sent = NoSent, !.scan = "",
              !.exc = IF @ = "" THEN "Other" ELSE @]

\* bot.py:208-209
BC_Answer(j) ==
  /\ jobs[j].pc = "b_answer"
  /\ \E r \in Raise2 :
       Set(j, [jobs[j] EXCEPT
                 !.pc = IF r = "none" THEN "b_parse" ELSE "b_error_handler",
                 !.exc = IF r = "none" THEN @ ELSE r])
  /\ UNCHANGED <<app, program, files, user_data>>

\* A handler that would start the pipeline without looking the URL up.
BC_Parse_NoLookup(j) ==
  /\ jobs[j].pc = "b_parse"
  /\ Set(j, [jobs[j] EXCEPT !.pc = "b_info", !.entered = TRUE,
               !.fmt = IF jobs[j].arg = "a" THEN "audio" ELSE "video",
               !.status = "progress"])
  /\ UNCHANGED <<app, program, files, user_data>>

\* bot.py:211-225
BC_Parse(j) ==
  /\ jobs[j].pc = "b_parse"
  /\ LET job == jobs[j] IN
     \E r \in Raise2 :
       IF r # "none" THEN
         Set(j, [job EXCEPT !.pc = "b_error_handler", !.exc = r])
       ELSE IF job.arg = "malformed" \/ job.vid \notin user_data THEN
         Set(j, Return([job EXCEPT !.outcome = "Rejected"]))
       ELSE
         Set(j, [job EXCEPT !.pc = "b_info", !.entered = TRUE,
                   !.fmt = IF job.arg = "a" THEN "audio" ELSE "video",
                   !.status = "progress"])
  /\ UNCHANGED <<app, program, files, user_data>>

\* bot.py:52-82: the info record, or None when the extraction raised.
get_video_info(j) ==
  \E i \in Infos \cup {NoInfo} :
    Set(j, [jobs[j] EXCEPT !.pc = "b_meta", !.info = i,
              !.meta = IF i.some THEN "ok" ELSE "failed"])

\* bot.py:228
BC_GetInfo(j) ==
  /\ jobs[j].pc = "b_info"
  /\ get_video_info(j)
  /\ UNCHANGED <<app, program, files, user_data>>

\* A handler that would not test the info record.
InfoMissing_Never(info) == FALSE

\* The metadata stage failed (bot.py:229).
InfoMissing(info) == ~info.some

\* One fixed directory for every job, in place of mkdtemp.
MkDtemp_Fixed(j) == 1

\* tempfile.TemporaryDirectory() (bot.py:236): mkdtemp creates a directory
\* under a name no other directory has; job j's gets the name j.
MkDtemp(j) == j

\* bot.py:229-236
BC_Meta(j) ==
  /\ jobs[j].pc = "b_meta"
  /\ LET job == jobs[j] IN
     IF InfoMissing(job.info) THEN
       \E r \in Raise2 :
         IF r = "none" THEN
           Set(j, Return([job EXCEPT !.fail = @ + 1, !.status = "failure",
                            !.outcome = "MetadataFailed"]))
         ELSE Set(j, Caught(job))
     ELSE IF job.info.duration = NoneVal THEN
       \* int(None) raises TypeError
       Set(j, Caught(job))
     ELSE
       Set(j, [job EXCEPT !.pc = "b_dl", !.ws = TRUE, !.dir = MkDtemp(j)])
  /\ UNCHANGED <<app, program, files, user_data>>

\* The extension of final_path (bot.py:127, 138).
FinalExt(fmt) == IF fmt = "audio" THEN "mp3" ELSE "mp4"
\* f.endswith(('.mp3', '.mp4')) (bot.py:149); every file the tool writes
\* starts with the video id (bot.py:125, 136).
EndsWithMedia(ext) == ext \in {"mp3", "mp4", "f137.mp4"}
BotToolExts(fmt) == {FinalExt(fmt), "f137.mp4", "webm"}
\* What one run of the tool leaves in the temporary directory: one file, or,
\* when nothing was merged into final_path, several "<id>.f<n>.mp4" files.
BotOutputs(fmt) ==
  Outputs(BotToolExts(fmt), 1) \cup
    { [n \in 1..m |-> <<"f137.mp4", MAX_FILE_SIZE_BYTES>>] : m \in 2..MaxFiles }

\* bot.py:84-156: final_path if the tool left it; else the first listed file
\* ending in .mp3 or .mp4, renamed to final_path; else None.
download_media(j, next) ==
  LET job == jobs[j] IN
  \E ok \in BOOLEAN, out \in BotOutputs(job.fmt),
     k \in ToolFailures :
    LET wr == Written(j, 1, out)
        now == files[job.dir] \cup wr
        exact == {f \in now : f.ext = FinalExt(job.fmt)}
        other == {f \in now : EndsWithMedia(f.ext)}
    IN
    /\ ok => Len(out) >= 1 /\ k = "Other"
    /\ ~ok => \A n \in 1..Len(out) : out[n] = <<"webm", MAX_FILE_SIZE_BYTES>>
    /\ IF ok /\ exact # {} THEN
         \E f \in exact :
           /\ Set(j, [job EXCEPT !.pc = next, !.file = f, !.res = Append(@, "ok"),
                        !.lad = Append(@, TOP_HEIGHT)])
           /\ files' = [files EXCEPT ![job.dir] = now]
       ELSE IF ok /\ other # {} THEN
         \E f \in other :
           LET g == [f EXCEPT !.ext = FinalExt(job.fmt)] IN
           /\ Set(j, [job EXCEPT !.pc = next, !.file = g, !.scan = f.ext,
                        !.res = Append(@, "ok"),
                        !.lad = Append(@, TOP_HEIGHT)])
           /\ files' = [files EXCEPT ![job.dir] = (now \ {f}) \cup {g}]
       ELSE
         /\ Set(j, [job EXCEPT !.pc = next, !.file = NoFile,
                      !.res = Append(@, IF ok THEN "ok" ELSE k),
                      !.lad = Append(@, TOP_HEIGHT)])
         /\ files' = [files EXCEPT ![job.dir] = now]

\* bot.py:237
BC_Download(j) ==
  /\ jobs[j].pc = "b_dl"
  /\ download_media(j, "b_check")
  /\ UNCHANGED <<app, program, user_data>>

\* The with block of bot.py:236 is left: the directory and all in it go.
TempDirGone(fs, d) == [fs EXCEPT ![d] = {}]

\* A size check of bot.py that would accept every artifact.
BotTooLarge_Never(size) == FALSE

\* The size check of bot.py:244.
BotTooLarge(size) == size > 50 * 1024 * 1024

\* bot.py:239-252
BC_Check(j) ==
  /\ jobs[j].pc = "b_check"
  /\ LET job == jobs[j]
         file_size == job.file.size
     IN \E r \in Raise2 :
       IF r # "none" THEN
         /\ Set(j, Caught(job))
         /\ files' = TempDirGone(files, job.dir)
       ELSE IF job.file = NoFile THEN
         /\ Set(j, Return([job EXCEPT !.fail = @ + 1, !.status = "failure",
                             !.ws = FALSE, !.outcome = "ToolError"]))
         /\ files' = TempDirGone(files, job.dir)
       ELSE IF BotTooLarge(file_size) THEN
         /\ Set(j, Return([job EXCEPT !.fail = @ + 1, !.status = "failure",
                             !.ws = FALSE, !.size = file_size,
                             !.outcome = "TooLarge"]))
         /\ files' = TempDirGone(files, job.dir)
       ELSE
         /\ Set(j, [job EXCEPT !.pc = "b_upload", !.size = file_size])
         /\ UNCHANGED files
  /\ UNCHANGED <<app, program, user_data>>

\* info.get('title', 'Downloaded Media') (bot.py:233)
BotTitleOf(info) ==
  IF info.title = Absent THEN Default("Downloaded Media") ELSE info.title

\* bot.py:255-272
BC_Upload(j) ==
  /\ jobs[j].pc = "b_upload"
  /\ LET job == jobs[j] IN
     \E r \in Raises :
       IF r = "none" THEN
         /\ Set(j, [job EXCEPT !.pc = "b_delete", !.uploads = @ + 1,
                      !.media = @ + 1, !.outcome = "Delivered",
                      !.sent = [title |-> BotTitleOf(job.info),
                                duration |-> DurationOf(job.info),
                                file |-> job.file]])
         /\ UNCHANGED files
       ELSE
         /\ Set(j, Caught([job EXCEPT !.uploads = @ + 1, !.exc = r,
                                       !.upexc = r]))
         /\ files' = TempDirGone(files, job.dir)
  /\ UNCHANGED <<app, program, user_data>>

\* bot.py:274, and the end of the with block
BC_Delete(j) ==
  /\ jobs[j].pc = "b_delete"
  /\ \E r \in Raise2 :
       Set(j, IF r = "none"
              THEN Return([jobs[j] EXCEPT !.status = "deleted", !.ws = FALSE])
              ELSE Caught(jobs[j]))
  /\ files' = TempDirGone(files, jobs[j].dir)
  /\ UNCHANGED <<app, program, user_data>>

\* bot.py:276-281
BC_Except(j) ==
  /\ jobs[j].pc = "b_except"
  /\ \E r \in Raise2 :
       Set(j, Return([jobs[j] EXCEPT
                 !.fail = IF r = "none" THEN @ + 1 ELSE @,
                 !.status = IF r = "none" THEN "failure" ELSE @,
                 !.outcome = IF r = "none" THEN "Fault" ELSE @]))
  /\ UNCHANGED <<app, program, files, user_data>>

\* main.py:495: the update is done with; the dispatcher takes the next one
\* and keeps nothing of this one.
UpdateProcessed(j) ==
  /\ program = "main"
  /\ jobs[j].pc = "ret"
  /\ Set(j, [NoJob EXCEPT !.pc = "done"])
  /\ UNCHANGED <<app, program, files, user_data>>

Next ==
  \/ bot_handle_message
  \/ handle_message
  \/ \E j \in JobIds :
    \/ SendCommand(j)
    \/ PressButton(j)
    \/ init_bot(j)
    \/ init_bot_initialize(j)
    \/ webhook(j)
    \/ webhook_except(j)
    \/ webhook_return(j)
    \/ bot_error_handler(j)
    \/ BC_Answer(j)
    \/ BC_Parse(j)
    \/ BC_GetInfo(j)
    \/ BC_Meta(j)
    \/ BC_Download(j)
    \/ BC_Check(j)
    \/ BC_Upload(j)
    \/ BC_Delete(j)
    \/ BC_Except(j)
    \/ UpdateProcessed(j)
    \/ video_command(j)
    \/ error_handler(j)
    \/ PVD_SendAction(j)
    \/ PVD_EditDownloading(j)
    \/ PVD_Download720(j)
    \/ PVD_Check720(j)
    \/ PVD_Download480(j)
    \/ PVD_Check480(j)
    \/ PVD_EditUploading(j)
    \/ PVD_Upload(j)
    \/ PVD_DeleteStatus(j)
    \/ PVD_TimedOut(j)
    \/ PVD_NetworkError(j)
    \/ PVD_Except(j)
    \/ PVD_Finally(j)
    \/ audio_command(j)
    \/ PAD_SendAction(j)
    \/ PAD_EditDownloading(j)
    \/ PAD_Download(j)
    \/ PAD_Check(j)
    \/ PAD_EditUploading(j)
    \/ PAD_Upload(j)
    \/ PAD_DeleteStatus(j)
    \/ PAD_TimedOut(j)
    \/ PAD_NetworkError(j)
    \/ PAD_Except(j)
    \/ PAD_Finally(j)

Spec == Init /\ [][Next]_vars

\* ================================================================= claims
\* The route or command handler that serves job j's update has been entered
\* and has not returned.
FrontEndActive(j) ==
  jobs[j].pc \notin {"none", "queued", "w_recv", "w_init", "w_route", "done"}
\* Job j is in a metadata, fetch or upload stage.
InStage(j) ==
  jobs[j].pc \in {"v_dl720", "v_dl480", "a_dl", "b_info", "b_dl",
                  "v_upload", "a_upload", "b_upload"}
\* The format selection job j was submitted with, and whether it is one.
Selection(j) ==
  IF program = "main" THEN <<jobs[j].fmt, jobs[j].arg>>
  ELSE <<jobs[j].arg, jobs[j].vid>>
ValidSelection(j) ==
  IF program = "main" THEN jobs[j].arg = "url" ELSE jobs[j].arg \in {"a", "v"}

\* C1: when a handler has returned (or raised), the scratch area of its job
\* holds no file, on every exit path; a directory no job holds is empty.
C1_ScratchEmptyAtReturn ==
  /\ \A j \in JobIds : jobs[j].pc = "ret" => files[jobs[j].dir] = {}
  /\ \A d \in Dirs :
       (\A j \in JobIds : ~(jobs[j].ws /\ jobs[j].dir = d)) => files[d] = {}

\* A job has delivered its media and its handler has returned.
C1_Witness == \E j \in JobIds : jobs[j].pc = "ret" /\ jobs[j].media = 1

\* C2: two jobs that hold a scratch directory at the same time hold different
\* ones; every file of a directory was written by the job holding it, and
\* the file a job has discovered is one it wrote itself.
C2_ScratchNotShared ==
  /\ \A j, k \in JobIds :
       (j # k /\ jobs[j].ws /\ jobs[k].ws) => jobs[j].dir # jobs[k].dir
  /\ \A d \in Dirs : \A f \in files[d] :
       \E j \in JobIds : jobs[j].ws /\ jobs[j].dir = d /\ f.by = j
  /\ \A j \in JobIds : jobs[j].file # NoFile => jobs[j].file.by = j

\* Two jobs are in flight together, each with files in its directory.
C2_Witness ==
  \E j, k \in JobIds :
    /\ j # k /\ jobs[j].ws /\ jobs[k].ws
    /\ files[jobs[j].dir] # {} /\ files[jobs[k].dir] # {}

\* C3 (as claimed): a video job is declared too large only after exactly the
\* ladder steps 720 then 480.
C3_LadderBeforeTooLarge ==
  \A j \in JobIds :
    (jobs[j].fmt = "video" /\ jobs[j].outcome = "TooLarge")
      => jobs[j].lad = <<TOP_HEIGHT, LOW_HEIGHT>>

\* A video job of bot.py has been declared too large after its one fetch.
C3_Witness ==
  \E j \in JobIds :
    /\ program = "bot" /\ jobs[j].fmt = "video"
    /\ jobs[j].outcome = "TooLarge" /\ jobs[j].lad = <<TOP_HEIGHT>>

\* C4: at every size check, an artifact of at most the ceiling is accepted
\* (the job goes on to the upload, unless the status edit before it raises)
\* and an artifact over the ceiling is not.
CheckPcs == {"v_check720", "v_check480", "a_check", "b_check"}
AcceptPcs == {"v_uploading", "a_uploading", "b_upload"}
Found(j) ==
  IF program = "bot" THEN jobs[j].file
  ELSE find_downloaded_file(files[DOWNLOAD_DIR],
         IF jobs[j].fmt = "video" THEN VIDEO_EXTS ELSE AUDIO_EXTS)
C4_SizeBoundary ==
  [][\A j \in JobIds :
       (/\ jobs[j].pc \in CheckPcs
        /\ jobs[j].error = "" /\ Found(j) # NoFile
        /\ jobs'[j] # jobs[j])
       => /\ Found(j).size <= 50 * 1024 * 1024
             => jobs'[j].pc \in AcceptPcs \cup {"b_except"}
          /\ Found(j).size > 50 * 1024 * 1024
             => jobs'[j].pc \notin AcceptPcs]_vars

\* An artifact of exactly the ceiling has been accepted.
C4_Witness ==
  \E j \in JobIds :
    jobs[j].pc \in AcceptPcs /\ jobs[j].size = 50 * 1024 * 1024

\* C5 (as claimed): while a job runs its pipeline, no second job with the
\* same selection runs or waits.
C5_DuplicateRejected ==
  \A j, k \in JobIds :
    (/\ j # k /\ jobs[j].entered
     /\ ValidSelection(j) /\ ValidSelection(k)
     /\ Selection(j) = Selection(k))
    => ~(jobs[k].entered \/ jobs[k].pc = "queued")

\* C6 (as claimed): with every worker busy, a further submission is not left
\* waiting.  main.py has one worker, the update loop.
C6_BusyNotQueued ==
  (\E j \in JobIds : Running(j)) => \A k \in JobIds : jobs[k].pc # "queued"

\* C7 (as claimed): no stage of a job runs while the route or command
\* handler that received the job has not returned.
C7_FrontEndOnlyEnqueues ==
  \A j \in JobIds : InStage(j) => ~FrontEndActive(j)

\* C8 (as claimed): a job that entered the pipeline has made exactly one
\* terminal report (the media or one failure text) when its handler returns.
C8_ExactlyOneReport ==
  \A j \in JobIds :
    (jobs[j].pc = "ret" /\ jobs[j].entered)
      => jobs[j].media + jobs[j].fail = 1

\* A handler has returned after sending the media and a failure text too.
C8_Witness ==
  \E j \in JobIds :
    jobs[j].pc = "ret" /\ jobs[j].media = 1 /\ jobs[j].fail = 1

\* C9: a video job of main.py whose 720 step gave an artifact within the
\* ceiling makes no 480 attempt; the media it sends carries the record's
\* title (first 100 characters, "video" when absent) and duration (0 when
\* absent).
C9_Common(j) ==
  /\ jobs[j].lad = <<TOP_HEIGHT>>
  /\ jobs[j].pc = "v_delete" =>
       /\ jobs[j].sent.title =
            IF jobs[j].info.title = Absent THEN <<"video", 0>>
            ELSE <<"str", Min(jobs[j].info.title[2], 100)>>
       /\ jobs[j].sent.duration =
            IF jobs[j].info.duration = Absent THEN <<"int", 0>>
            ELSE jobs[j].info.duration
C9_Scenario(j) ==
  program = "main" /\ jobs[j].fmt = "video" /\ jobs[j].first = "ok"

C10_NoFetchAfterMetadataFailure ==
  \A j \in JobIds :
    jobs[j].meta = "failed" =>
      /\ jobs[j].lad = <<>> /\ ~jobs[j].ws /\ jobs[j].dir = 0
      /\ jobs[j].uploads = 0 /\ jobs[j].media = 0
      /\ jobs[j].pc \in {"b_meta", "b_except", "ret"}
      /\ jobs[j].pc = "ret" => jobs[j].outcome \in {"MetadataFailed", "Fault", ""}

\* A job has ended with the metadata failure reported.
C10_Witness ==
  \E j \in JobIds :
    /\ jobs[j].meta = "failed" /\ jobs[j].pc = "ret"
    /\ jobs[j].outcome = "MetadataFailed"

\* C11 (as claimed): a run of the tool that failed because the item does not
\* exist or is restricted is the last run of the tool for its job.
C11_NoRunAfterTerminalFailure ==
  \A j \in JobIds : \A i \in 1..Len(jobs[j].res) :
    jobs[j].res[i] \in {"NotFound", "Restricted"} => i = Len(jobs[j].res)

\* An audio job whose first run failed on a restricted item has run the tool
\* a second time.
C11_Witness ==
  \E j \in JobIds :
    /\ jobs[j].fmt = "audio" /\ Len(jobs[j].res) = 2
    /\ jobs[j].res[1] = "Restricted"

\* C12 (as claimed): a job whose upload call raised TimedOut or NetworkError
\* has, when its handler returns, shown the failure text of that upload
\* failure (not the generic one) and has made one upload call.
C12_UploadFailureDistinct ==
  \A j \in JobIds :
    (jobs[j].pc = "ret" /\ jobs[j].upexc \in {"TimedOut", "NetworkError"})
      => /\ jobs[j].outcome \in {"UploadTimeout", "UploadNetworkError"}
         /\ jobs[j].fail = 1
         /\ jobs[j].uploads = 1

\* A job of bot.py whose upload timed out has shown the generic failure text.
C12_Witness ==
  \E j \in JobIds :
    /\ program = "bot" /\ jobs[j].pc = "ret" /\ jobs[j].upexc = "TimedOut"
    /\ jobs[j].outcome = "Fault" /\ jobs[j].fail = 1

\* C13 (as claimed): an exception raised in process_video_download or
\* process_audio_download never reaches the application's error handler, and
\* a job in whose pipeline an exception was raised has shown a failure text
\* when its handler returns.
C13_FaultCaughtAndReported ==
  \A j \in JobIds :
    /\ jobs[j].pc = "m_error_handler" => jobs[j].arg # "url"
    /\ (jobs[j].pc = "ret" /\ jobs[j].entered /\ jobs[j].exc # "")
         => jobs[j].fail >= 1

\* The first status message of a /video or /audio job raised, and the
\* exception has left the handler.
C13_Witness ==
  \E j \in JobIds : jobs[j].pc = "m_error_handler" /\ jobs[j].arg = "url"

\* C14 (as claimed): a job whose media has been sent shows no failure text
\* afterwards, and a job that has shown a failure text sends no media.
C14_TerminalExclusive ==
  \A j \in JobIds : ~(jobs[j].media >= 1 /\ jobs[j].fail >= 1)

\* A job of main.py has sent its media and then reported an upload timeout.
C14_Witness ==
  \E j \in JobIds :
    /\ jobs[j].pc \in {"v_finally", "a_finally"}
    /\ jobs[j].media = 1 /\ jobs[j].outcome = "UploadTimeout"

\* The positions from the "Uploading" status edit to the status delete.
UploadPcs ==
  {"v_uploading", "v_upload", "v_delete", "a_uploading", "a_upload",
   "a_delete", "b_upload", "b_delete"}

C16_AtMostTwoFetches ==
  \A j \in JobIds :
    (program = "main" /\ jobs[j].fmt = "video") =>
      /\ jobs[j].lad \in {<<>>, <<TOP_HEIGHT>>, <<TOP_HEIGHT, LOW_HEIGHT>>}
      /\ Len(jobs[j].res) = Len(jobs[j].lad)
      /\ (/\ jobs[j].pc = "v_finally" /\ Len(jobs[j].lad) = 2
          /\ jobs[j].res[2] = "ok"
          /\ jobs[j].size > MAX_FILE_SIZE_BYTES /\ jobs[j].exc = "")
           => jobs[j].outcome = "TooLarge" /\ jobs[j].fail = 1

\* A video job has exhausted the ladder and ended with the too-large failure.
C16_Witness ==
  \E j \in JobIds :
    /\ program = "main" /\ jobs[j].pc = "v_finally"
    /\ jobs[j].lad = <<TOP_HEIGHT, LOW_HEIGHT>>
    /\ jobs[j].size > MAX_FILE_SIZE_BYTES /\ jobs[j].outcome = "TooLarge"

\* C17: in a video job of main.py the 480 run is made only after a 720 run
\* that succeeded and left an artifact over the ceiling; after a 720 run that
\* failed no further run is made, and the job ends with the tool's error
\* shown (unless the edit that shows it raised).
C17_NoFallbackOnToolError ==
  \A j \in JobIds :
    (program = "main" /\ jobs[j].fmt = "video" /\ jobs[j].res # <<>>) =>
      /\ Len(jobs[j].lad) = 2
           => jobs[j].res[1] = "ok" /\ jobs[j].first = "large"
      /\ jobs[j].res[1] # "ok" =>
           /\ jobs[j].lad = <<TOP_HEIGHT>>
           /\ jobs[j].pc \in {"v_check720", "v_except", "v_finally", "ret"}
           /\ jobs[j].uploads = 0
           /\ (jobs[j].pc = "v_finally" /\ jobs[j].exc = "")
                => jobs[j].outcome = "ToolError" /\ jobs[j].fail = 1

\* A video job whose 720 run failed has ended with the tool's error shown.
C17_Witness ==
  \E j \in JobIds :
    /\ program = "main" /\ jobs[j].pc = "v_finally"
    /\ jobs[j].res = <<"Transient">> /\ jobs[j].outcome = "ToolError"

\* C18: download_audio_sync runs the FFmpeg path first and the path without
\* post-processing exactly when the FFmpeg path failed; it returns an error
\* exactly when both paths failed, and an info record otherwise.
C18_AudioFallback ==
  \A j \in JobIds :
    (program = "main" /\ jobs[j].fmt = "audio" /\ jobs[j].res # <<>>) =>
      /\ jobs[j].paths \in {<<"ffmpeg">>, <<"ffmpeg", "plain">>}
      /\ Len(jobs[j].res) = Len(jobs[j].paths)
      /\ jobs[j].paths = <<"ffmpeg">> <=> jobs[j].res[1] = "ok"
      /\ jobs[j].pc = "a_check" =>
           /\ jobs[j].error # "" <=>
                (Len(jobs[j].res) = 2 /\ jobs[j].res[2] # "ok")
           /\ jobs[j].error = "" <=> jobs[j].info.some

\* The FFmpeg path failed and the fallback path succeeded.
C18_Witness ==
  \E j \in JobIds :
    /\ jobs[j].pc = "a_check" /\ jobs[j].paths = <<"ffmpeg", "plain">>
    /\ jobs[j].res[2] = "ok" /\ jobs[j].error = ""

\* C19: every file in the scratch area of a video job of main.py was written
\* by the job's last run of the tool; the directory is empty when the 480 run
\* starts, and file discovery after the 480 run returns a file of that run.
C19_OnlyLastAttempt ==
  \A j \in JobIds :
    (program = "main" /\ jobs[j].fmt = "video") =>
      /\ \A f \in files[DOWNLOAD_DIR] :
           f.by = j => f.att = Len(jobs[j].lad)
      /\ jobs[j].pc = "v_dl480" => files[DOWNLOAD_DIR] = {}
      /\ jobs[j].pc = "v_check480" =>
           LET video_file == find_downloaded_file(files[DOWNLOAD_DIR], VIDEO_EXTS)
           IN video_file # NoFile => video_file.by = j /\ video_file.att = 2

\* After the 480 run the directory holds files, all of that run.
C19_Witness ==
  \E j \in JobIds :
    /\ program = "main" /\ jobs[j].pc = "v_check480"
    /\ \E f \in files[DOWNLOAD_DIR] : f.att = 2 /\ f.ext \in VIDEO_EXTS

\* C20 (as claimed): when the artifact is resolved by scanning the scratch
\* area, the file chosen is the newest of the files with an expected
\* extension.
C20_ScanChoosesNewest ==
  \A j \in JobIds :
    (jobs[j].pc \in {"b_check", "v_check720", "v_check480", "a_check"}
     /\ Found(j) # NoFile /\ (program = "bot" => jobs[j].scan # ""))
      => \A g \in files[jobs[j].dir] :
           (IF program = "bot" THEN EndsWithMedia(g.ext)
            ELSE g.ext \in (IF jobs[j].fmt = "video" THEN VIDEO_EXTS
                            ELSE AUDIO_EXTS))
             => g.mtime <= Found(j).mtime

\* download_media of bot.py has resolved the artifact to a file older than
\* another file ending in .mp4.
C20_Witness ==
  \E j \in JobIds :
    /\ program = "bot" /\ jobs[j].pc = "b_check" /\ jobs[j].scan # ""
    /\ \E g \in files[jobs[j].dir] :
         EndsWithMedia(g.ext) /\ g.mtime > jobs[j].file.mtime

\* C21 (as claimed): the status message is deleted only after the media has
\* been sent; when the handler of a job that sent its media returns, the
\* status message has been deleted; when the handler of a job that entered the
\* pipeline and sent no media returns, the status message is still there and
\* shows a failure text.
C21_StatusLifecycle ==
  \A j \in JobIds :
    /\ jobs[j].status = "deleted" => jobs[j].media = 1
    /\ (jobs[j].pc = "ret" /\ jobs[j].media = 1) => jobs[j].status = "deleted"
    /\ (jobs[j].pc = "ret" /\ jobs[j].entered /\ jobs[j].media = 0)
         => jobs[j].status = "failure"

\* A handler has returned after sending the media, the status message not
\* deleted and showing a failure text.
C21_Witness ==
  \E j \in JobIds :
    jobs[j].pc = "ret" /\ jobs[j].media = 1 /\ jobs[j].status = "failure"

\* C25 (as claimed): a video job ends with the too-large failure text only
\* when the file its last run of the tool left was found and is over the
\* ceiling.
C25_TooLargeOnlyWhenOversized ==
  \A j \in JobIds :
    (jobs[j].fmt = "video" /\ jobs[j].outcome = "TooLarge")
      => /\ jobs[j].file # NoFile
         /\ jobs[j].file.att = Len(jobs[j].lad)
         /\ jobs[j].size > MAX_FILE_SIZE_BYTES

\* A video job of main.py whose 480 run succeeded and left no file with a
\* video extension has ended with the too-large failure text.
C25_Witness ==
  \E j \in JobIds :
    /\ program = "main" /\ jobs[j].pc = "v_finally"
    /\ jobs[j].lad = <<TOP_HEIGHT, LOW_HEIGHT>> /\ jobs[j].res[2] = "ok"
    /\ jobs[j].outcome = "TooLarge" /\ jobs[j].file = NoFile

Recognised(j) ==
  ValidSelection(j) /\ (program = "bot" => jobs[j].vid \in user_data)

\* C23: a step that detects a link (and remembers its URL) changes no job and
\* no file; a job enters the pipeline only from /video or /audio with a
\* YouTube URL, or from a button press with well-formed callback data and a
\* remembered URL; any other choice leaves the handler with the error reply
\* sent (or, if that reply raised, in the error handler), and a job that has
\* not entered the pipeline has no status message, no run of the tool, no
\* scratch directory and no upload.
C23_PipelineOnlyFromValidChoice ==
  [][/\ user_data' # user_data => jobs' = jobs /\ files' = files
     /\ \A j \in JobIds :
          /\ (~jobs[j].entered /\ jobs'[j].entered)
               => Recognised(j) /\ jobs[j].pc \in {"queued", "b_parse"}
          /\ (/\ jobs[j].pc \in {"queued", "b_parse"}
              /\ jobs'[j] # jobs[j] /\ ~Recognised(j))
               => /\ ~jobs'[j].entered
                  /\ jobs'[j].pc \in {"ret", "m_error_handler", "b_error_handler"}
                  /\ jobs'[j].pc = "ret" => jobs'[j].outcome = "Rejected"
          /\ ~jobs'[j].entered
               => /\ jobs'[j].status = "none" /\ jobs'[j].res = <<>>
                  /\ jobs'[j].lad = <<>> /\ jobs'[j].paths = <<>>
                  /\ ~jobs'[j].ws /\ jobs'[j].uploads = 0]_vars

\* A button press whose video id has no remembered URL has been answered
\* with the error reply.
C23_Witness ==
  \E j \in JobIds :
    /\ program = "bot" /\ jobs[j].pc = "ret" /\ jobs[j].arg \in {"a", "v"}
    /\ jobs[j].vid \notin user_data /\ jobs[j].outcome = "Rejected"

\* C24: the webhook route answers every request with 200 or 400; it answers
\* 400 exactly for a body without JSON data, and 200 "error logged" exactly
\* when an exception was raised in the route (by get_json, Update.de_json or
\* process_update).
C24_WebhookAlwaysResponds ==
  [][\A j \in JobIds :
       (program = "bot" /\ jobs[j].pc # "done" /\ jobs'[j].pc = "done")
         => /\ jobs[j].pc \in {"w_route", "w_except", "ret"}
            /\ jobs'[j].http[2] \in {200, 400}
            /\ jobs'[j].http[2] = 400
                 <=> (jobs[j].pc = "w_route" /\ jobs[j].arg = "nodata")
            /\ jobs[j].pc = "w_except" => jobs'[j].http = <<"error logged", 200>>
            /\ jobs[j].exc # "" => jobs'[j].http[2] = 200]_vars

\* A request whose processing raised has been answered with 200.
C24_Witness ==
  \E j \in JobIds : jobs[j].pc = "done" /\ jobs[j].http = <<"error logged", 200>>

\* C27 (as claimed): at no time two requests are both past the hasattr test
\* and running initialize(); and no update is handed to process_update while
\* ptb_app is not initialised (process_update then raises in the route).
C27_InitOnceBeforeProcessing ==
  /\ Cardinality({j \in JobIds : jobs[j].pc = "w_init"}) <= 1
  /\ \A j \in JobIds :
       jobs[j].pc = "w_except" => jobs[j].arg \in {"nodata", "invalid"}

\* Two first requests are both running initialize().
C27_Witness ==
  \E j, k \in JobIds : j # k /\ jobs[j].pc = "w_init" /\ jobs[k].pc = "w_init"

\* C26: at every upload call, the file handed to the call is the job's own
\* artifact, present in the job's scratch directory, with the size the last
\* size check read, and that size is at most 50 MiB; the media that arrives
\* is that file.
C26_UploadsCheckedFile ==
  [][\A j \in JobIds :
       jobs'[j].uploads = jobs[j].uploads + 1
         => /\ jobs[j].pc \in {"v_upload", "a_upload", "b_upload"}
            /\ jobs[j].file # NoFile /\ jobs[j].file.by = j
            /\ jobs[j].file \in files[jobs[j].dir]
            /\ jobs[j].size = get_file_size(jobs[j].file, files[jobs[j].dir])
            /\ jobs[j].size <= 50 * 1024 * 1024
            /\ jobs'[j].media = jobs[j].media + 1
                 => jobs'[j].sent.file = jobs[j].file]_vars

\* A job has uploaded its artifact while another job holds files of its own.
C26_Witness ==
  \E j, k \in JobIds :
    /\ j # k /\ jobs[j].pc = "b_delete" /\ jobs[j].media = 1
    /\ jobs[j].sent.file.size <= 50 * 1024 * 1024
    /\ jobs[k].ws /\ files[jobs[k].dir] # {}

====
